---- MODULE Spec2Model ----
(***************************************************************************)
(* Model of initial_visualization.py: the Data class (selection of the    *)
(* neurons of a class, construction of the connectivity map, JSON save     *)
(* and load, listing of downstream regions) and the GraphData class        *)
(* (connectivity matrix and its normalisation).                            *)
(*                                                                         *)
(* Python values are modelled as follows.                                  *)
(*   - a DataFrame is the sequence of its rows, each row a record;         *)
(*   - a dict is the sequence of its items in insertion order, each item   *)
(*     a record [key, value], keys pairwise different;                     *)
(*   - an int is a natural number, a str of digits is the sequence of its  *)
(*     characters, so str(12) = <<"1", "2">>;                              *)
(*   - a float cell of a normalised matrix is a reduced fraction           *)
(*     [num, den]; den = 0 encodes numpy's inf (num = 1) and nan (num = 0).*)
(***************************************************************************)
EXTENDS Integers, Sequences, FiniteSets, TLC

VARIABLES
    classification_df,  \* Data.classification_df: rows [root_id, class]
    connection_df,      \* Data.connection_df: rows [pre_root_id, post_root_id, syn_count, nt_type]
    files,              \* the working directory: file name -> JSON text or NoFile
    pc,                 \* position of the running call
    raised,             \* the exception that ended the call, or "none"
    class_arg,          \* olfactory_neruons: _class
    list_neurons,       \* olfactory_neruons: list_neurons / neuron_connections: list_neurons
    index,              \* number of rows of the table already iterated
    save,               \* neuron_connections: save
    name,               \* neuron_connections: name
    neuron_connection,  \* neuron_connections: neuron_connection
    returned,           \* the value the call returned (None before)
    file_loc,           \* Data.file_loc
    data,               \* the dict load_json returned
    loc_1,              \* connectivity_matrix_multiple_areas: loc_1 (visualize_single_area: loc)
    loc_2,              \* connectivity_matrix_multiple_areas: loc_2
    normalize,          \* the normalize argument
    data_frames,        \* connectivity_matrix: data_frames
    connect_matrix_1,   \* connect_matrix_1 (visualize_single_area: connect_matrix)
    connect_matrix_2    \* connect_matrix_2

vars == <<classification_df, connection_df, files, pc, raised, class_arg,
          list_neurons, index, save, name, neuron_connection, returned,
          file_loc, data, loc_1, loc_2, normalize, data_frames,
          connect_matrix_1, connect_matrix_2>>

-----------------------------------------------------------------------------
(* Bounds of the model *)

\* rows of the classification table of the selection runs
MaxNodes == 3
\* rows of the connection table of the extraction runs
MaxEdges == 2
\* length of the list of neurons given to neuron_connections
MaxList == 2
\* largest synapse count of a connection row of the matrix runs
MaxStrength == 2

\* root ids: one-digit and two-digit ids, one a prefix of the other as text
Ids == {1, 2, 12}
Classes == {"olfactory", "ALPN"}
NtTypes == {"ACH", "GABA"}

None == "None"
\* a file of the working directory: absent, or present with its JSON text
NoFile == [exists |-> FALSE, text |-> <<>>]
File(text) == [exists |-> TRUE, text |-> text]

SeqsUpTo(S, n) == UNION {[1..k -> S] : k \in 0..n}

Range(s) == {s[k] : k \in 1..Len(s)}

-----------------------------------------------------------------------------
(* Python built-ins *)

DigitChar == <<"0", "1", "2", "3", "4", "5", "6", "7", "8", "9">>

\* str(n) for an int n >= 0: its decimal digits
RECURSIVE py_str(_)
py_str(n) ==
    IF n < 10 THEN <<DigitChar[n + 1]>>
    ELSE Append(py_str(n \div 10), DigitChar[(n % 10) + 1])

\* dict: key in d
dict_has(d, k) == \E p \in 1..Len(d) : d[p].key = k

\* dict: list(d.keys())
dict_keys(d) == [p \in 1..Len(d) |-> d[p].key]

\* list.index(k): the first position of k (0-based in Python, 1-based here)
list_index(l, k) == CHOOSE p \in 1..Len(l) : l[p] = k /\ \A q \in 1..(p - 1) : l[q] # k

\* dict: d[k]
dict_get(d, k) == d[list_index(dict_keys(d), k)].value

\* dict: d[k] = v; a new key goes last, an existing key keeps its place
dict_set(d, k, v) ==
    IF dict_has(d, k)
    THEN [p \in 1..Len(d) |-> IF d[p].key = k THEN [key |-> k, value |-> v] ELSE d[p]]
    ELSE Append(d, [key |-> k, value |-> v])

-----------------------------------------------------------------------------
(* Data.olfactory_neruons *)

ClassificationRows == [root_id : Ids, class : Classes]

\* variant of the loop body that skips an id already in the list
olfactory_neruons_body_dup(list, row, c) ==
    IF row["class"] = c /\ row["root_id"] \notin Range(list)
    THEN Append(list, row["root_id"])
    ELSE list

\* the body of the loop over classification_df.iterrows()
olfactory_neruons_body(list, row, c) ==
    IF row["class"] = c THEN Append(list, row["root_id"]) ELSE list

InitSelect ==
    /\ classification_df \in SeqsUpTo(ClassificationRows, MaxNodes)
    /\ connection_df = <<>>
    /\ files = <<>>
    /\ pc = "olfactory_neruons"
    /\ raised = "none"
    /\ class_arg \in Classes
    /\ list_neurons = <<>>
    /\ index = 0
    /\ save = None
    /\ name = None
    /\ neuron_connection = <<>>
    /\ returned = None
    /\ file_loc = None
    /\ data = None
    /\ loc_1 = None
    /\ loc_2 = None
    /\ normalize = FALSE
    /\ data_frames = <<>>
    /\ connect_matrix_1 = None
    /\ connect_matrix_2 = None

\* one iteration of the loop
olfactory_neruons_row ==
    /\ pc = "olfactory_neruons"
    /\ index < Len(classification_df)
    /\ list_neurons' =
           olfactory_neruons_body(list_neurons, classification_df[index + 1], class_arg)
    /\ index' = index + 1
    /\ UNCHANGED <<classification_df, connection_df, files, pc, raised, class_arg,
                   save, name, neuron_connection, returned, file_loc, data, loc_1,
                   loc_2, normalize, data_frames, connect_matrix_1, connect_matrix_2>>

\* return list_neurons
olfactory_neruons_return ==
    /\ pc = "olfactory_neruons"
    /\ index = Len(classification_df)
    /\ returned' = list_neurons
    /\ pc' = "olfactory_neruons_done"
    /\ UNCHANGED <<classification_df, connection_df, files, raised, class_arg,
                   list_neurons, index, save, name, neuron_connection, file_loc, data,
                   loc_1, loc_2, normalize, data_frames, connect_matrix_1,
                   connect_matrix_2>>

NextSelect == olfactory_neruons_row \/ olfactory_neruons_return

SpecSelect == InitSelect /\ [][NextSelect]_vars

\* the rows of T whose class is c, and the number of them up to row p
MatchingRows(T, c) == {p \in 1..Len(T) : T[p]["class"] = c}
RankOfRow(T, c, p) == Cardinality({q \in MatchingRows(T, c) : q <= p})

\* C1: olfactory_neruons(c) returns the root_id of each row whose class is c,
\* one entry per matching row and nothing else, in table row order.
C1_SelectionIsExact ==
    pc = "olfactory_neruons_done" =>
        /\ Len(returned) = Cardinality(MatchingRows(classification_df, class_arg))
        /\ \A p \in MatchingRows(classification_df, class_arg) :
               returned[RankOfRow(classification_df, class_arg, p)]
                   = classification_df[p]["root_id"]

\* two matching rows of different ids around a row of another class
C1_Witness ==
    /\ pc = "olfactory_neruons_done"
    /\ Len(classification_df) = 3
    /\ classification_df[2]["class"] # class_arg
    /\ Len(returned) = 2
    /\ returned[1] # returned[2]

-----------------------------------------------------------------------------
(* Data.save_data and Data.load_json *)

\* variant of json_dump that writes only the last digit of a key
json_dump_last_digit(d) ==
    [p \in 1..Len(d) |-> [key |-> py_str(d[p].key % 10), value |-> d[p].value]]

\* json.dump(data, f): the items in order, every int key written as text
json_dump(d) ==
    [p \in 1..Len(d) |-> [key |-> py_str(d[p].key), value |-> d[p].value]]

\* json.load(f): the dict of the pairs of the text, read in order
RECURSIVE json_load(_)
json_load(text) ==
    IF text = <<>> THEN <<>>
    ELSE LET n == Len(text)
         IN  dict_set(json_load(SubSeq(text, 1, n - 1)), text[n].key, text[n].value)

\* a file name is the sequence of the strings concatenated into it:
\* open(name + ".json", "w") opens name \o <<".json">>
JsonFile(n) == n \o <<".json">>

\* save_data(data, name)
save_data(fs, d, n) == [fs EXCEPT ![JsonFile(n)] = File(json_dump(d))]

-----------------------------------------------------------------------------
(* Data.neuron_connections *)

\* the ids of the listed neurons; the connection rows with sources pres,
\* synapse counts syns and types nts
KeyIds == {1, 12}
ConnectionRowsOf(pres, syns, nts) ==
    [pre_root_id : pres, post_root_id : KeyIds, syn_count : syns, nt_type : nts]
ConnectionRows == ConnectionRowsOf(Ids, {1, 2}, NtTypes)

\* region + "_connections", the names the script saves under
Regions == {"olfactory", "ALPN"}
ConnectionsName(region) == <<region, "_connections">>
Names == {ConnectionsName(r) : r \in Regions}

EmptyEntry == [downstream |-> <<>>, strength |-> <<>>, connection_type |-> <<>>]

\* a file left by an earlier run
OldFile == File(<<[key |-> <<"2">>, value |-> EmptyEntry]>>)

\* the loop initialising the dict with every neuron of list_neurons
RECURSIVE neuron_connections_init(_)
neuron_connections_init(list) ==
    IF list = <<>> THEN <<>>
    ELSE LET n == Len(list)
         IN  dict_set(neuron_connections_init(SubSeq(list, 1, n - 1)), list[n], EmptyEntry)

\* variant of the scan body that records the rows of unlisted sources too
neuron_connections_body_adds_key(nc, row, list) ==
    LET pre_root_id == row["pre_root_id"]
        old == IF dict_has(nc, pre_root_id) THEN dict_get(nc, pre_root_id) ELSE EmptyEntry
    IN  dict_set(nc, pre_root_id,
                 [downstream |-> Append(old.downstream, row["post_root_id"]),
                  strength |-> Append(old.strength, row["syn_count"]),
                  connection_type |-> Append(old.connection_type, row["nt_type"])])

\* variant of the scan body that puts the new target first
neuron_connections_body_first(nc, row, list) ==
    LET pre_root_id == row["pre_root_id"]
    IN  IF pre_root_id \notin Range(list) THEN nc
        ELSE LET old == dict_get(nc, pre_root_id)
             IN  dict_set(nc, pre_root_id,
                          [downstream |-> <<row["post_root_id"]>> \o old.downstream,
                           strength |-> Append(old.strength, row["syn_count"]),
                           connection_type |-> Append(old.connection_type, row["nt_type"])])

\* the body of the loop over connection_df.iterrows()
neuron_connections_body(nc, row, list) ==
    LET pre_root_id == row["pre_root_id"]
    IN  IF pre_root_id \notin Range(list) THEN nc
        ELSE LET old == dict_get(nc, pre_root_id)
             IN  dict_set(nc, pre_root_id,
                          [downstream |-> Append(old.downstream, row["post_root_id"]),
                           strength |-> Append(old.strength, row["syn_count"]),
                           connection_type |-> Append(old.connection_type, row["nt_type"])])

\* truth value of a str: the empty str alone is false
py_bool(s) == s # ""

Init ==
    /\ classification_df = <<>>
    /\ connection_df \in SeqsUpTo(ConnectionRows, MaxEdges)
    /\ files \in {[f \in {JsonFile(n) : n \in Names} |-> c] : c \in {NoFile, OldFile}}
    /\ pc = "neuron_connections"
    /\ raised = "none"
    /\ class_arg = None
    /\ list_neurons \in SeqsUpTo(KeyIds, MaxList)
    /\ index = 0
    /\ save \in {"y", "n", ""}
    /\ name = ConnectionsName("olfactory")
    /\ neuron_connection = <<>>
    /\ returned = None
    /\ file_loc = None
    /\ data = None
    /\ loc_1 = None
    /\ loc_2 = None
    /\ normalize = FALSE
    /\ data_frames = <<>>
    /\ connect_matrix_1 = None
    /\ connect_matrix_2 = None

\* neuron_connection = {} and the loop over list_neurons
neuron_connections_start ==
    /\ pc = "neuron_connections"
    /\ neuron_connection' = neuron_connections_init(list_neurons)
    /\ index' = 0
    /\ pc' = "neuron_connections_scan"
    /\ UNCHANGED <<classification_df, connection_df, files, raised, class_arg,
                   list_neurons, save, name, returned, file_loc, data, loc_1, loc_2,
                   normalize, data_frames, connect_matrix_1, connect_matrix_2>>

\* one iteration of the loop over the connection rows
neuron_connections_row ==
    /\ pc = "neuron_connections_scan"
    /\ index < Len(connection_df)
    /\ neuron_connection' =
           neuron_connections_body(neuron_connection, connection_df[index + 1], list_neurons)
    /\ index' = index + 1
    /\ UNCHANGED <<classification_df, connection_df, files, pc, raised, class_arg,
                   list_neurons, save, name, returned, file_loc, data, loc_1, loc_2,
                   normalize, data_frames, connect_matrix_1, connect_matrix_2>>

\* if save: self.save_data(neuron_connection, name); return neuron_connection
neuron_connections_return ==
    /\ pc = "neuron_connections_scan"
    /\ index = Len(connection_df)
    /\ files' = IF py_bool(save) THEN save_data(files, neuron_connection, name) ELSE files
    /\ returned' = neuron_connection
    /\ pc' = "neuron_connections_done"
    /\ UNCHANGED <<classification_df, connection_df, raised, class_arg, list_neurons,
                   index, save, name, neuron_connection, file_loc, data, loc_1, loc_2,
                   normalize, data_frames, connect_matrix_1, connect_matrix_2>>

\* Data(exist_file='y', file_loc=name + ".json").load_json()
load_json ==
    /\ pc = "neuron_connections_done"
    /\ file_loc' = JsonFile(name)
    /\ IF ~files[JsonFile(name)].exists
       THEN /\ raised' = "FileNotFoundError"
            /\ pc' = "failed"
            /\ data' = data
       ELSE /\ data' = json_load(files[JsonFile(name)].text)
            /\ pc' = "load_json_done"
            /\ raised' = raised
    /\ UNCHANGED <<classification_df, connection_df, files, class_arg, list_neurons,
                   index, save, name, neuron_connection, returned, loc_1, loc_2,
                   normalize, data_frames, connect_matrix_1, connect_matrix_2>>

Next ==
    \/ neuron_connections_start
    \/ neuron_connections_row
    \/ neuron_connections_return
    \/ load_json

Spec == Init /\ [][Next]_vars

-----------------------------------------------------------------------------
(* Properties of neuron_connections, save_data and load_json *)

\* the rows of E whose source is k among the first n rows, and the number of
\* them up to row p
EdgeRowsOf(E, k, n) == {p \in 1..n : E[p]["pre_root_id"] = k}
RankOfEdge(E, k, p) == Cardinality(EdgeRowsOf(E, k, p))

\* the entry e holds, in row order, the three fields of the rows of E whose
\* source is k among the first n rows
EntryIsRowsOf(e, E, k, n) ==
    /\ Len(e.downstream) = Cardinality(EdgeRowsOf(E, k, n))
    /\ Len(e.strength) = Cardinality(EdgeRowsOf(E, k, n))
    /\ Len(e.connection_type) = Cardinality(EdgeRowsOf(E, k, n))
    /\ \A p \in EdgeRowsOf(E, k, n) :
           /\ e.downstream[RankOfEdge(E, k, p)] = E[p]["post_root_id"]
           /\ e.strength[RankOfEdge(E, k, p)] = E[p]["syn_count"]
           /\ e.connection_type[RankOfEdge(E, k, p)] = E[p]["nt_type"]

KeysDistinct(d) == \A p, q \in 1..Len(d) : d[p].key = d[q].key => p = q

\* C2: the returned map has exactly the ids of list_neurons as keys, and the
\* three sequences of every key are the post_root_id, syn_count and nt_type of
\* exactly the connection rows whose pre_root_id is the key, in row order.
C2_MapIsExact ==
    pc = "neuron_connections_done" =>
        /\ KeysDistinct(returned)
        /\ Range(dict_keys(returned)) = Range(list_neurons)
        /\ \A p \in 1..Len(returned) :
               EntryIsRowsOf(returned[p].value, connection_df, returned[p].key,
                             Len(connection_df))

\* a listed neuron with two rows around a row of an unlisted source, and a
\* listed neuron with no row at all
C2_Witness ==
    /\ pc = "neuron_connections_done"
    /\ Len(returned) = 2
    /\ Len(connection_df) >= 2
    /\ \E p \in 1..Len(returned) : returned[p].value = EmptyEntry
    /\ \E p \in 1..Len(connection_df) : connection_df[p]["pre_root_id"] \notin Range(list_neurons)
    /\ \E p \in 1..Len(returned) : Len(returned[p].value.downstream) >= 1

\* position i of the three sequences of key k comes from one connection row
\* among the first n
SameRowAt(e, E, k, n, i) ==
    \E p \in 1..n :
        /\ E[p]["pre_root_id"] = k
        /\ e.downstream[i] = E[p]["post_root_id"]
        /\ e.strength[i] = E[p]["syn_count"]
        /\ e.connection_type[i] = E[p]["nt_type"]

ScanAligned ==
    pc \in {"neuron_connections_scan", "neuron_connections_done"} =>
        \A p \in 1..Len(neuron_connection) :
            LET e == neuron_connection[p].value
            IN  /\ Len(e.downstream) = Len(e.strength)
                /\ Len(e.strength) = Len(e.connection_type)
                /\ \A i \in 1..Len(e.downstream) :
                       SameRowAt(e, connection_df, neuron_connection[p].key, index, i)

ScanKeepsKeys ==
    pc = "neuron_connections_scan" =>
        dict_keys(neuron_connection') = dict_keys(neuron_connection)

\* C3: after any number of scanned rows and in the returned map, the three
\* sequences of each node have equal length and position i of all three comes
\* from the same connection row; the keys of the map never change in the scan.
C3_ParallelSequences == [](ScanAligned /\ (pc = "neuron_connections_done" => returned = neuron_connection)) /\ [][ScanKeepsKeys]_vars

\* the scan is past two rows of one listed source that differ in every field
C3_Witness ==
    /\ pc = "neuron_connections_scan"
    /\ index = 2
    /\ \E p \in 1..Len(neuron_connection) :
           LET e == neuron_connection[p].value
           IN  /\ Len(e.downstream) = 2
               /\ e.downstream[1] # e.downstream[2]
               /\ e.strength[1] # e.strength[2]
               /\ e.connection_type[1] # e.connection_type[2]

\* C4: saving a map and loading the file yields the text forms of the keys of
\* the map, in the same order, each with the same three sequences.
C4_RoundTrip ==
    (pc = "load_json_done" /\ py_bool(save)) =>
        /\ Len(data) = Len(returned)
        /\ \A p \in 1..Len(returned) :
               /\ data[p].key = py_str(returned[p].key)
               /\ data[p].value = returned[p].value

\* a saved and reloaded map of two keys, one of two digits, with an edge
C4_Witness ==
    /\ pc = "load_json_done"
    /\ py_bool(save)
    /\ Len(returned) = 2
    /\ \E p \in 1..2 : Len(data[p].key) = 2
    /\ \E p \in 1..2 : Len(data[p].value.downstream) >= 1

\* C10: neuron_connections writes name + ".json" when save is 'y' and leaves
\* the working directory unchanged otherwise.
C10_SavesOnlyOnY ==
    [][(pc = "neuron_connections_scan" /\ pc' = "neuron_connections_done") =>
           files' = IF save = "y"
                    THEN [files EXCEPT ![JsonFile(name)] = File(json_dump(neuron_connection))]
                    ELSE files]_vars

-----------------------------------------------------------------------------
(* Data.list_down_stream_regions *)

\* the whole of neuron_connections on the first n rows of E
RECURSIVE neuron_connections_scan(_, _, _)
neuron_connections_scan(list, E, n) ==
    IF n = 0 THEN neuron_connections_init(list)
    ELSE neuron_connections_body(neuron_connections_scan(list, E, n - 1), E[n], list)

\* the file an earlier neuron_connections(list, save='y') over E wrote
PersistedFile(list, E) == File(json_dump(neuron_connections_scan(list, E, Len(E))))

\* classification_df.iloc[np.where(classification_df["root_id"] == downstream)[0]]
rows_of_root_id(T, downstream) ==
    SelectSeq(T, LAMBDA r : r["root_id"] = downstream)

\* variant of the inner loop body that takes the class of the last row
list_down_stream_regions_body_last(acc, T, downstream) ==
    IF acc.raised # "none" THEN acc
    ELSE LET row == rows_of_root_id(T, downstream)
         IN  IF row = <<>> THEN [acc EXCEPT !.raised = "IndexError"]
             ELSE LET c == row[Len(row)]["class"]
                  IN  IF c \in Range(acc.regions) THEN acc
                      ELSE [acc EXCEPT !.regions = Append(acc.regions, c)]

\* the body of the inner loop, given the regions listed so far: the class of
\* the first row of the downstream id, appended unless already listed; the
\* lookup fails (IndexError) when no row has the id
list_down_stream_regions_body(acc, T, downstream) ==
    IF acc.raised # "none" THEN acc
    ELSE LET row == rows_of_root_id(T, downstream)
         IN  IF row = <<>> THEN [acc EXCEPT !.raised = "IndexError"]
             ELSE LET c == row[1]["class"]
                  IN  IF c \in Range(acc.regions) THEN acc
                      ELSE [acc EXCEPT !.regions = Append(acc.regions, c)]

\* the inner loop over the first n downstream ids of one value
RECURSIVE list_down_stream_regions_inner(_, _, _, _)
list_down_stream_regions_inner(acc, T, downstream, n) ==
    IF n = 0 THEN acc
    ELSE list_down_stream_regions_body(
             list_down_stream_regions_inner(acc, T, downstream, n - 1), T, downstream[n])

\* the outer loop over the first n items of the dict
RECURSIVE list_down_stream_regions_outer(_, _, _)
list_down_stream_regions_outer(d, T, n) ==
    IF n = 0 THEN [regions |-> <<>>, raised |-> "none"]
    ELSE list_down_stream_regions_inner(
             list_down_stream_regions_outer(d, T, n - 1), T,
             d[n].value.downstream, Len(d[n].value.downstream))

\* the key lists of the persisted maps of the regions and matrix runs
KeyLists == {<<>>, <<1>>, <<12>>, <<1, 12>>, <<12, 1>>}

InitRegions ==
    /\ classification_df \in SeqsUpTo(ClassificationRows, MaxNodes)
    /\ connection_df = <<>>
    /\ file_loc = JsonFile(ConnectionsName("ALPN"))
    /\ \E l \in KeyLists, E \in SeqsUpTo(ConnectionRowsOf(KeyIds, {1}, {"ACH"}), MaxEdges) :
           files = [f \in {file_loc} |-> PersistedFile(l, E)]
    /\ pc = "list_down_stream_regions"
    /\ raised = "none"
    /\ class_arg = None
    /\ list_neurons = <<>>
    /\ index = 0
    /\ save = None
    /\ name = None
    /\ neuron_connection = <<>>
    /\ returned = None
    /\ data = None
    /\ loc_1 = None
    /\ loc_2 = None
    /\ normalize = FALSE
    /\ data_frames = <<>>
    /\ connect_matrix_1 = None
    /\ connect_matrix_2 = None

\* data = self.load_json()
list_down_stream_regions_load ==
    /\ pc = "list_down_stream_regions"
    /\ IF ~files[file_loc].exists
       THEN /\ raised' = "FileNotFoundError"
            /\ pc' = "failed"
            /\ data' = data
       ELSE /\ data' = json_load(files[file_loc].text)
            /\ pc' = "list_down_stream_regions_loop"
            /\ raised' = raised
    /\ UNCHANGED <<classification_df, connection_df, files, class_arg, list_neurons,
                   index, save, name, neuron_connection, returned, file_loc, loc_1,
                   loc_2, normalize, data_frames, connect_matrix_1, connect_matrix_2>>

\* the two loops and the return
list_down_stream_regions_walk ==
    /\ pc = "list_down_stream_regions_loop"
    /\ LET acc == list_down_stream_regions_outer(data, classification_df, Len(data))
       IN  IF acc.raised # "none"
           THEN /\ raised' = acc.raised
                /\ pc' = "failed"
                /\ returned' = returned
           ELSE /\ returned' = acc.regions
                /\ pc' = "list_down_stream_regions_done"
                /\ raised' = raised
    /\ UNCHANGED <<classification_df, connection_df, files, class_arg, list_neurons,
                   index, save, name, neuron_connection, file_loc, data, loc_1, loc_2,
                   normalize, data_frames, connect_matrix_1, connect_matrix_2>>

NextRegions == list_down_stream_regions_load \/ list_down_stream_regions_walk

SpecRegions == InitRegions /\ [][NextRegions]_vars

\* the downstream ids of the first n items of d, in walking order
RECURSIVE DownstreamWalk(_, _)
DownstreamWalk(d, n) ==
    IF n = 0 THEN <<>> ELSE DownstreamWalk(d, n - 1) \o d[n].value.downstream

HasRow(T, id) == \E p \in 1..Len(T) : T[p]["root_id"] = id
FirstRowOf(T, id) ==
    CHOOSE p \in 1..Len(T) : T[p]["root_id"] = id /\ \A q \in 1..(p - 1) : T[q]["root_id"] # id
ClassOfId(T, id) == T[FirstRowOf(T, id)]["class"]

\* the first position of the walk w whose id has class c
FirstSeen(T, w, c) ==
    CHOOSE i \in 1..Len(w) :
        ClassOfId(T, w[i]) = c /\ \A j \in 1..(i - 1) : ClassOfId(T, w[j]) # c

\* C7: when every downstream id of the loaded map has a row in the node
\* table, list_down_stream_regions returns the class (of the first row of the
\* id) of every downstream id of the map, each class once, in the order the
\* classes are first met walking the keys and each key's downstream sequence.
C7_DistinctRegionsFirstSeen ==
    LET w == DownstreamWalk(data, Len(data))
    IN  (/\ pc \in {"list_down_stream_regions_done", "failed"}
         /\ \A i \in 1..Len(w) : HasRow(classification_df, w[i])) =>
            /\ pc = "list_down_stream_regions_done"
            /\ Range(returned) = {ClassOfId(classification_df, w[i]) : i \in 1..Len(w)}
            /\ \A a, b \in 1..Len(returned) :
                   a < b => FirstSeen(classification_df, w, returned[a])
                                < FirstSeen(classification_df, w, returned[b])

\* two keys whose walking order differs from the order of the connection
\* rows, downstream ids of two classes, and an id with rows of two classes
C7_Witness ==
    /\ pc = "list_down_stream_regions_done"
    /\ Len(returned) = 2
    /\ Len(data) = 2
    /\ Len(data[1].value.downstream) = 1
    /\ Len(data[2].value.downstream) = 1
    /\ \E p, q \in 1..Len(classification_df) :
           /\ p < q
           /\ classification_df[p]["root_id"] = classification_df[q]["root_id"]
           /\ classification_df[p]["class"] # classification_df[q]["class"]
           /\ classification_df[p]["root_id"] = data[1].value.downstream[1]

-----------------------------------------------------------------------------
(* GraphData.connectivity_matrix *)

\* np.zeros((rows, columns)): an array keeps its shape beside its cells
np_zeros(rows, columns) ==
    [shape |-> <<rows, columns>>,
     cells |-> [i \in 1..rows |-> [c \in 1..columns |-> 0]]]

\* variant of the column lookup that always answers the first column
connectivity_matrix_column_first(list_loc2_neurons, downstream) == 1

\* list_loc2_neurons.index(str(downstream))
connectivity_matrix_column(list_loc2_neurons, downstream) ==
    list_index(list_loc2_neurons, py_str(downstream))

\* variant of the assignment that adds to the cell
connectivity_matrix_assign_sum(row, idx_downstream, strength) ==
    [row EXCEPT ![idx_downstream] = row[idx_downstream] + strength]

\* connect_matrix[i][idx_downstream] = value["strength"][j]
connectivity_matrix_assign(row, idx_downstream, strength) ==
    [row EXCEPT ![idx_downstream] = strength]

\* the inner loop over the first n downstream ids of one value, on row i
RECURSIVE connectivity_matrix_inner(_, _, _, _)
connectivity_matrix_inner(row, list_loc2_neurons, value, n) ==
    IF n = 0 THEN row
    ELSE LET before == connectivity_matrix_inner(row, list_loc2_neurons, value, n - 1)
             downstream == value.downstream[n]
         IN  IF py_str(downstream) \notin Range(list_loc2_neurons) THEN before
             ELSE connectivity_matrix_assign(
                      before,
                      connectivity_matrix_column(list_loc2_neurons, downstream),
                      value.strength[n])

\* connectivity_matrix(data_frames, upstream_axis); upstream_axis is 0 or 1
connectivity_matrix(frames, upstream_axis) ==
    IF Len(frames) # 2 THEN [raised |-> "ValueError", matrix |-> None]
    ELSE LET up == frames[upstream_axis + 1]
             down == frames[(1 - upstream_axis) + 1]
             list_loc2_neurons == dict_keys(down)
             zeros == np_zeros(Len(up), Len(down))
         IN  [raised |-> "none",
              matrix |-> [zeros EXCEPT !.cells =
                  [i \in 1..Len(up) |->
                      connectivity_matrix_inner(zeros.cells[i], list_loc2_neurons,
                                                up[i].value,
                                                Len(up[i].value.downstream))]]]

-----------------------------------------------------------------------------
(* connect_matrix / connect_matrix.max() *)

RECURSIVE gcd(_, _)
gcd(a, b) == IF b = 0 THEN a ELSE gcd(b, a % b)

nan == [num |-> 0, den |-> 0]
inf == [num |-> 1, den |-> 0]

\* x / y on numpy floats for synapse counts x, y >= 0: 0/0 is nan, x/0 is inf
np_divide(x, y) ==
    IF y = 0 THEN (IF x = 0 THEN nan ELSE inf)
    ELSE [num |-> x \div gcd(x, y), den |-> y \div gcd(x, y)]

CellsOf(m) == {m.cells[i][c] : i \in 1..m.shape[1], c \in 1..m.shape[2]}

\* variant of max() that answers the first cell
np_max_first(m) == m.cells[1][1]

\* connect_matrix.max(), of an array that is not empty
np_max(m) == CHOOSE x \in CellsOf(m) : \A y \in CellsOf(m) : y <= x

\* connect_matrix / connect_matrix.max(); max() of an empty array raises
normalize_matrix(m) ==
    IF m.shape[1] * m.shape[2] = 0 THEN [raised |-> "ValueError", matrix |-> m]
    ELSE [raised |-> "none",
          matrix |-> [m EXCEPT !.cells =
              [i \in 1..m.shape[1] |->
                  [c \in 1..m.shape[2] |-> np_divide(m.cells[i][c], np_max(m))]]]]

-----------------------------------------------------------------------------
(* GraphData.visualize_single_area and connectivity_matrix_multiple_areas *)

\* parent_dir + loc + "_connections.json" in the working directory
ConnectionsFile(loc) == JsonFile(ConnectionsName(loc))

InitMatrix ==
    /\ classification_df = <<>>
    /\ connection_df \in SeqsUpTo(ConnectionRowsOf(KeyIds, 1..MaxStrength, {"ACH"}), MaxEdges)
    /\ loc_1 = "ALPN"
    /\ loc_2 = "LHCENT"
    /\ \E l1, l2 \in KeyLists :
           files = (ConnectionsFile(loc_1) :> PersistedFile(l1, connection_df))
                   @@ (ConnectionsFile(loc_2) :> PersistedFile(l2, connection_df))
    /\ pc \in {"visualize_single_area", "connectivity_matrix_multiple_areas"}
    /\ raised = "none"
    /\ class_arg = None
    /\ list_neurons = <<>>
    /\ index = 0
    /\ save = None
    /\ name = None
    /\ neuron_connection = <<>>
    /\ returned = None
    /\ file_loc = None
    /\ data = None
    /\ normalize \in BOOLEAN
    /\ data_frames = <<>>
    /\ connect_matrix_1 = None
    /\ connect_matrix_2 = None

\* data = Data(exist_file='y', file_loc=file_path).load_json()
\* connect_matrix = self.connectivity_matrix([data, data])
visualize_single_area_matrix ==
    /\ pc = "visualize_single_area"
    /\ file_loc' = ConnectionsFile(loc_1)
    /\ IF ~files[ConnectionsFile(loc_1)].exists
       THEN /\ raised' = "FileNotFoundError"
            /\ pc' = "visualize_single_area_failed"
            /\ UNCHANGED <<data, data_frames, connect_matrix_1>>
       ELSE LET loaded == json_load(files[ConnectionsFile(loc_1)].text)
                built == connectivity_matrix(<<loaded, loaded>>, 0)
            IN  /\ data' = loaded
                /\ data_frames' = <<loaded, loaded>>
                /\ connect_matrix_1' = built.matrix
                /\ raised' = built.raised
                /\ pc' = IF built.raised = "none" THEN "visualize_single_area_normalize"
                         ELSE "visualize_single_area_failed"
    /\ UNCHANGED <<classification_df, connection_df, files, class_arg, list_neurons,
                   index, save, name, neuron_connection, returned, loc_1, loc_2,
                   normalize, connect_matrix_2>>

\* if normalize: connect_matrix = connect_matrix / connect_matrix.max(); the plot
visualize_single_area_normalize ==
    /\ pc = "visualize_single_area_normalize"
    /\ LET normal == normalize_matrix(connect_matrix_1)
       IN  IF normalize /\ normal.raised # "none"
           THEN /\ raised' = normal.raised
                /\ pc' = "visualize_single_area_failed"
                /\ connect_matrix_1' = connect_matrix_1
           ELSE /\ connect_matrix_1' = IF normalize THEN normal.matrix ELSE connect_matrix_1
                /\ pc' = "visualize_single_area_done"
                /\ raised' = raised
    /\ UNCHANGED <<classification_df, connection_df, files, class_arg, list_neurons,
                   index, save, name, neuron_connection, returned, file_loc, data,
                   loc_1, loc_2, normalize, data_frames, connect_matrix_2>>

\* the two load_json calls and the two connectivity_matrix calls
connectivity_matrix_multiple_areas_matrix ==
    /\ pc = "connectivity_matrix_multiple_areas"
    /\ IF ~files[ConnectionsFile(loc_1)].exists \/ ~files[ConnectionsFile(loc_2)].exists
       THEN /\ raised' = "FileNotFoundError"
            /\ pc' = "connectivity_matrix_multiple_areas_failed"
            /\ UNCHANGED <<data_frames, connect_matrix_1, connect_matrix_2>>
       ELSE LET loc_1_data == json_load(files[ConnectionsFile(loc_1)].text)
                loc_2_data == json_load(files[ConnectionsFile(loc_2)].text)
                built_1 == connectivity_matrix(<<loc_1_data, loc_2_data>>, 0)
                built_2 == connectivity_matrix(<<loc_1_data, loc_2_data>>, 1)
            IN  /\ data_frames' = <<loc_1_data, loc_2_data>>
                /\ connect_matrix_1' = built_1.matrix
                /\ connect_matrix_2' = built_2.matrix
                /\ raised' = IF built_1.raised # "none" THEN built_1.raised ELSE built_2.raised
                /\ pc' = IF built_1.raised = "none" /\ built_2.raised = "none"
                         THEN "connectivity_matrix_multiple_areas_normalize"
                         ELSE "connectivity_matrix_multiple_areas_failed"
    /\ UNCHANGED <<classification_df, connection_df, files, class_arg, list_neurons,
                   index, save, name, neuron_connection, returned, file_loc, data,
                   loc_1, loc_2, normalize>>

\* if normalize: the two divisions, in order; the plot
connectivity_matrix_multiple_areas_normalize ==
    /\ pc = "connectivity_matrix_multiple_areas_normalize"
    /\ LET normal_1 == normalize_matrix(connect_matrix_1)
           normal_2 == normalize_matrix(connect_matrix_2)
       IN  IF ~normalize
           THEN /\ pc' = "connectivity_matrix_multiple_areas_done"
                /\ UNCHANGED <<raised, connect_matrix_1, connect_matrix_2>>
           ELSE IF normal_1.raised # "none"
           THEN /\ raised' = normal_1.raised
                /\ pc' = "connectivity_matrix_multiple_areas_failed"
                /\ UNCHANGED <<connect_matrix_1, connect_matrix_2>>
           ELSE IF normal_2.raised # "none"
           THEN /\ raised' = normal_2.raised
                /\ pc' = "connectivity_matrix_multiple_areas_failed"
                /\ connect_matrix_1' = normal_1.matrix
                /\ connect_matrix_2' = connect_matrix_2
           ELSE /\ connect_matrix_1' = normal_1.matrix
                /\ connect_matrix_2' = normal_2.matrix
                /\ pc' = "connectivity_matrix_multiple_areas_done"
                /\ raised' = raised
    /\ UNCHANGED <<classification_df, connection_df, files, class_arg, list_neurons,
                   index, save, name, neuron_connection, returned, file_loc, data,
                   loc_1, loc_2, normalize, data_frames>>

NextMatrix ==
    \/ visualize_single_area_matrix
    \/ visualize_single_area_normalize
    \/ connectivity_matrix_multiple_areas_matrix
    \/ connectivity_matrix_multiple_areas_normalize

SpecMatrix == InitMatrix /\ [][NextMatrix]_vars

-----------------------------------------------------------------------------
(* Properties of connectivity_matrix and of the normalisation *)

MaxOf(S) == CHOOSE x \in S : \A y \in S : y <= x

\* the positions of the downstream sequence of value whose text form is key
Hits(value, key) ==
    {j \in 1..Len(value.downstream) : py_str(value.downstream[j]) = key}

\* the matrices built at the current position, each with its upstream and
\* downstream map
BuiltMatrices ==
    IF pc = "visualize_single_area_normalize"
    THEN {[m |-> connect_matrix_1, up |-> data_frames[1], down |-> data_frames[2]]}
    ELSE IF pc = "connectivity_matrix_multiple_areas_normalize"
    THEN {[m |-> connect_matrix_1, up |-> data_frames[1], down |-> data_frames[2]],
          [m |-> connect_matrix_2, up |-> data_frames[2], down |-> data_frames[1]]}
    ELSE {}

\* C5: when an upstream node has several edges to one downstream key, the
\* cell of the pair holds the strength of the last of them in the node's
\* sequence (not their sum, not an earlier one).
C5_LastEdgeWins ==
    \A b \in BuiltMatrices :
        \A i \in 1..Len(b.up), c \in 1..Len(b.down) :
            Hits(b.up[i].value, b.down[c].key) # {} =>
                b.m.cells[i][c]
                    = b.up[i].value.strength[MaxOf(Hits(b.up[i].value, b.down[c].key))]

\* an upstream node with two edges of different strengths to one key
C5_Witness ==
    \E b \in BuiltMatrices :
        \E i \in 1..Len(b.up), c \in 1..Len(b.down) :
            \E j, k \in Hits(b.up[i].value, b.down[c].key) :
                /\ j < k
                /\ b.up[i].value.strength[j] > b.up[i].value.strength[k]

\* C6: the matrix has one row per upstream entry and one column per
\* downstream entry, in key order; an edge is written to cell (i, c) only when
\* the text form of its target is the c-th downstream key, an edge whose
\* target is no downstream key changes no cell, and a cell no edge is written
\* to stays 0.
C6_ShapeAndSkippedEdges ==
    \A b \in BuiltMatrices :
        /\ b.m.shape = <<Len(b.up), Len(b.down)>>
        /\ Len(b.m.cells) = Len(b.up)
        /\ \A i \in 1..Len(b.up) :
               /\ Len(b.m.cells[i]) = Len(b.down)
               /\ \A c \in 1..Len(b.down) :
                      Hits(b.up[i].value, b.down[c].key) = {} => b.m.cells[i][c] = 0

\* a map of one key against itself whose node has an edge to an id that is no
\* key, skipped, and then an edge to the key itself, written
C6_Witness ==
    \E b \in BuiltMatrices :
        /\ b.up = b.down
        /\ Len(b.up) = 1
        /\ Len(b.up[1].value.downstream) = 2
        /\ py_str(b.up[1].value.downstream[1]) \notin Range(dict_keys(b.down))
        /\ b.m.cells[1][1] # 0

\* n is m with every cell divided by the largest cell of m, and its largest
\* cell is exactly 1
NormalizedFrom(n, m) ==
    /\ n.shape = m.shape
    /\ \A i \in 1..m.shape[1], c \in 1..m.shape[2] :
           /\ n.cells[i][c].den > 0
           /\ n.cells[i][c].num * MaxOf(CellsOf(m)) = m.cells[i][c] * n.cells[i][c].den
           /\ n.cells[i][c].num <= n.cells[i][c].den
    /\ \E i \in 1..m.shape[1], c \in 1..m.shape[2] : n.cells[i][c] = [num |-> 1, den |-> 1]

NotAllZero(m) == \E x \in CellsOf(m) : x # 0

NormalizeStep ==
    /\ (pc = "visualize_single_area_normalize" /\ normalize /\ NotAllZero(connect_matrix_1)) =>
           /\ pc' = "visualize_single_area_done"
           /\ NormalizedFrom(connect_matrix_1', connect_matrix_1)
    /\ (pc = "connectivity_matrix_multiple_areas_normalize" /\ normalize) =>
           /\ NotAllZero(connect_matrix_1) =>
                  NormalizedFrom(connect_matrix_1', connect_matrix_1)
           /\ NotAllZero(connect_matrix_2) =>
                  /\ pc' = "connectivity_matrix_multiple_areas_done"
                  /\ NormalizedFrom(connect_matrix_2', connect_matrix_2)

\* C8: normalising a matrix of synapse counts that is not all zero gives a
\* matrix whose largest cell is exactly 1 and whose every cell is the
\* original cell divided by the original largest cell.
C8_NormalizedMaxIsOne == [][NormalizeStep]_vars

\* a normalised matrix holding 1/2 beside 1
C8_Witness ==
    /\ pc = "visualize_single_area_done"
    /\ normalize
    /\ [num |-> 1, den |-> 2] \in CellsOf(connect_matrix_1)
    /\ [num |-> 1, den |-> 1] \in CellsOf(connect_matrix_1)

\* C9: after a selection that matched no node, whose empty map was saved,
\* visualize_single_area on the reloaded empty map completes without raising.
C9_EmptyCategoryCompletes ==
    (/\ pc \in {"visualize_single_area_normalize", "visualize_single_area_failed",
                "visualize_single_area_done"}
     /\ files[ConnectionsFile(loc_1)] = PersistedFile(<<>>, connection_df)) =>
        /\ raised = "none"
        /\ pc # "visualize_single_area_failed"

====
